---- MODULE Spec2Model ----
(***************************************************************************)
(* Model of the file-analysis endpoint of pdf_analyzer/views.py:           *)
(* analyze_and_cleanup_pdfs(request, user_id) and the helpers it calls.    *)
(* One request is followed from the authorization check to its HTTP        *)
(* response.  The object store (Cloudinary), the HTTP client (requests),   *)
(* the PDF library (fitz) and the OCR engine (pytesseract) are the         *)
(* environment: each call to them draws its outcome from a small set.      *)
(***************************************************************************)
EXTENDS Integers, Sequences, FiniteSets, TLC

(***************************************************************************)
(* Bounds of the model.                                                    *)
(***************************************************************************)
\* largest number of resources one list call of the store returns
MaxList == 2

(***************************************************************************)
(* Python values.                                                          *)
(***************************************************************************)
\* None where a string is expected (os.getenv, dict.get("format"))
None == "<None>"
\* None where a public id is expected (dict.get("public_id")); a public id
\* is the sequence of its "/"-separated segments, never empty
NoneId == << >>
\* request.user without an id attribute
NoUser == "<no id>"

\* bool(v) of a string or None
Truthy(v) == v # None /\ v # ""

\* str.lower() on the format strings the store can return
Lower(s) ==
  CASE s = "PDF" -> "pdf"
    [] s = "JPG" -> "jpg"
    [] OTHER -> s

\* the last element of a non-empty sequence: public_id.split("/")[-1]
Last(s) == s[Len(s)]

(***************************************************************************)
(* Text.  A text is a sequence of tokens: a token is one character, or one *)
(* of the fixed headers the code inserts.                                   *)
(***************************************************************************)
Whitespace == {" ", "\n"}

\* f"\n--- Page {page_num + 1} ---\n"
PageHeader(n) ==
  CASE n = 1 -> "\n--- Page 1 ---\n"
    [] n = 2 -> "\n--- Page 2 ---\n"
    [] OTHER -> "\n--- Page N ---\n"

PageHeaders == {PageHeader(1), PageHeader(2), PageHeader(3)}

\* len() of one token
TokenLen(t) == IF t \in PageHeaders THEN 16 ELSE 1

\* len(text)
RECURSIVE StrLen(_)
StrLen(text) == IF text = << >> THEN 0 ELSE TokenLen(Head(text)) + StrLen(Tail(text))

\* text.lstrip()
RECURSIVE LStrip(_)
LStrip(text) ==
  IF text # << >> /\ Head(text) \in Whitespace THEN LStrip(Tail(text)) ELSE text

\* text.rstrip()
RECURSIVE RStrip(_)
RStrip(text) ==
  IF text # << >> /\ text[Len(text)] \in Whitespace
    THEN RStrip(SubSeq(text, 1, Len(text) - 1))
    ELSE text

\* text.strip(), of a text without page headers
Strip(text) == RStrip(LStrip(text))

\* len(text.split()): the maximal runs of non-whitespace characters; a page
\* header is four words between two newlines
RECURSIVE WordCount(_, _)
WordCount(text, inWord) ==
  IF text = << >> THEN 0
  ELSE IF Head(text) \in PageHeaders THEN 4 + WordCount(Tail(text), FALSE)
  ELSE IF Head(text) \in Whitespace THEN WordCount(Tail(text), FALSE)
  ELSE (IF inWord THEN 0 ELSE 1) + WordCount(Tail(text), TRUE)

\* "sep".join(parts)
RECURSIVE Join(_, _)
Join(sep, parts) ==
  IF parts = << >> THEN << >>
  ELSE IF Len(parts) = 1 THEN Head(parts)
  ELSE Head(parts) \o sep \o Join(sep, Tail(parts))

\* text[:500] + "..." if len(text) > 500 else text
PreviewLimit == 500
Preview(text) ==
  IF StrLen(text) > PreviewLimit
    THEN SubSeq(text, 1, PreviewLimit) \o <<".", ".", ".">>
    ELSE text

(***************************************************************************)
(* The request and the process environment.                                *)
(***************************************************************************)
\* the user id of the path  fetch/<str:user_id>/
PathUserIds == {"1"}
\* str(request.user.id) of the caller, or NoUser
Callers == {"1", "2", NoUser}
\* what os.getenv returns for one Cloudinary variable
EnvValues == {None, "", "set"}

VARIABLES
  pc,               \* position of the request in analyze_and_cleanup_pdfs
  user,             \* request.user.id, or NoUser
  user_id,          \* the path parameter
  env,              \* CLOUDINARY_CLOUD_NAME, _API_KEY, _API_SECRET
  OCR_AVAILABLE,    \* module flag set at import
  raw_resources,    \* result_raw.get("resources", [])
  image_resources,  \* result_image.get("resources", [])
  pdf_files,        \* PDF candidates
  image_files,      \* image candidates
  i,                \* 1-based index of the candidate being processed
  public_id,        \* public id of the candidate being processed
  response,         \* response.content of the last successful GET
  direct_error,     \* the exception of the failed direct GET
  processed_files,
  failed_files,
  deleted_files,
  total_text,       \* one element per  total_text += f"..."
  total_pages,
  calls,            \* every call made to the store or its CDN, in order
  extract_calls,    \* every call of an extract_text_from_* function, in order
  cloud_destroyed,  \* the objects the store has removed
  http              \* the Response returned, or NoResponse

vars == << pc, user, user_id, env, OCR_AVAILABLE, raw_resources, image_resources,
           pdf_files, image_files, i, public_id, response, direct_error,
           processed_files, failed_files, deleted_files, total_text, total_pages,
           calls, extract_calls, cloud_destroyed, http >>

NoResponse == [status |-> 0, error |-> "", body |-> << >>]

\* a call to the store or its CDN, with what came back: op is "list", "GET",
\* "sign" or "destroy"; ok is FALSE when the call raised; content is the
\* bytes of a GET; error is str() of the exception, or the "result" of destroy
Call(op, rtype, id, url, ok, content, error) ==
  [op |-> op, resource_type |-> rtype, public_id |-> id, url |-> url,
   ok |-> ok, content |-> content, error |-> error]

\* a call of extract_text_from_pdf_bytes or extract_text_from_image_bytes
Extraction(rtype, id, result) == [resource_type |-> rtype, public_id |-> id, result |-> result]

(***************************************************************************)
(* Authorization and configuration checks.                                 *)
(***************************************************************************)
\* 0 when the caller is authorized, else the status of the early return
AuthorizationStatus(u, uid) ==
  IF u = NoUser THEN 401
  ELSE IF u # uid THEN 403
  ELSE 0

\* ConfigurationPresent with any() for all()
ConfigurationPresent_any(e) == \E k \in DOMAIN e : Truthy(e[k])

\* all([CLOUD_NAME, API_KEY, API_SECRET])
ConfigurationPresent(e) == \A k \in DOMAIN e : Truthy(e[k])

(***************************************************************************)
(* PDF extraction.  What fitz makes of the bytes is the environment's      *)
(* choice: it raises, or it yields a document, a sequence of pages; a page *)
(* holds what its three get_text formats return.                           *)
(***************************************************************************)
\* a page with a text layer
PagePlain == [text |-> <<"a", " ", "b">>, blocks |-> << <<"a", " ", "b">> >>, lines |-> << <<"a", "b">> >>]
\* a page whose plain format is blank and whose blocks carry the text
PageBlocks == [text |-> <<"\n">>, blocks |-> << <<"c">>, <<"d">> >>, lines |-> << <<"c">>, <<"d">> >>]
\* a page whose plain and block formats are blank
PageSpans == [text |-> << >>, blocks |-> << <<" ">> >>, lines |-> << <<"e", "f">> >>]

FitzOutcomes ==
  { [ok |-> FALSE, error |-> "cannot open broken document", pages |-> << >>],
    [ok |-> TRUE, error |-> "", pages |-> << >>],
    [ok |-> TRUE, error |-> "", pages |-> <<PagePlain, PageBlocks>>] }

\* the spans of one line: span.get("text", "") + " " each
RECURSIVE SpanText(_)
SpanText(spans) ==
  IF spans = << >> THEN << >> ELSE <<Head(spans), " ">> \o SpanText(Tail(spans))

\* the lines of the blocks of the dict format: the spans, then "\n"
RECURSIVE DictText(_)
DictText(lines) ==
  IF lines = << >> THEN << >>
  ELSE SpanText(Head(lines)) \o <<"\n">> \o DictText(Tail(lines))

\* the text of one page: the first of the three formats that is not blank
PageText(page) ==
  LET t1 == page.text
      t2 == IF Strip(t1) = << >> THEN Join(<<"\n">>, page.blocks) ELSE t1
  IN  IF Strip(t2) = << >> THEN DictText(page.lines) ELSE t2

\* text += f"\n--- Page {page_num + 1} ---\n{page_text}" over the pages from n on
RECURSIVE DocText(_, _)
DocText(pages, n) ==
  IF n > Len(pages) THEN << >>
  ELSE <<PageHeader(n)>> \o PageText(pages[n]) \o DocText(pages, n + 1)

ExtractionFailure(error) ==
  [success |-> FALSE, text |-> << >>, page_count |-> 0, character_count |-> 0,
   word_count |-> 0, error |-> error, image_dimensions |-> "unknown"]

extract_text_from_pdf_bytes(pdf_bytes, fitz) ==
  IF fitz.ok
    THEN LET text == DocText(fitz.pages, 1)
         IN  [success |-> TRUE, text |-> text, page_count |-> Len(fitz.pages),
              character_count |-> StrLen(text), word_count |-> WordCount(text, FALSE),
              error |-> None, image_dimensions |-> "unknown"]
    ELSE ExtractionFailure(fitz.error)

(***************************************************************************)
(* Image extraction.  What PIL and Tesseract make of the bytes is the      *)
(* environment's choice: the decode raises, or the engine returns a text.  *)
(***************************************************************************)
OcrOutcomes ==
  { [ok |-> FALSE, error |-> "cannot identify image file", text |-> << >>, size |-> "unknown"],
    [ok |-> TRUE, error |-> "", text |-> <<" ", "\n">>, size |-> "8x8"],
    [ok |-> TRUE, error |-> "", text |-> <<"h", "i", " ", "u", "\n">>, size |-> "8x8"] }

extract_text_from_image_bytes(image_bytes, filename, ocrAvailable, ocr) ==
  IF ~ocrAvailable THEN ExtractionFailure("OCR dependencies not installed")
  ELSE IF ocr.ok
    THEN [success |-> TRUE, text |-> Strip(ocr.text), page_count |-> 0,
          character_count |-> StrLen(Strip(ocr.text)),
          word_count |-> WordCount(Strip(ocr.text), FALSE),
          error |-> None, image_dimensions |-> ocr.size]
    ELSE ExtractionFailure(ocr.error)

(***************************************************************************)
(* The object store.                                                       *)
(***************************************************************************)
\* cloudinary_url that signs for the "authenticated" access type
cloudinary_url_authenticated(id, rtype, sign_url, type) ==
  <<"https://res.cloudinary.com/demo", rtype, IF sign_url THEN "authenticated" ELSE type>>
    \o (IF sign_url THEN <<"s--signature--">> ELSE << >>) \o id

\* cloudinary.utils.cloudinary_url(public_id, resource_type=, sign_url=, type=)
cloudinary_url(id, rtype, sign_url, type) ==
  <<"https://res.cloudinary.com/demo", rtype, type>>
    \o (IF sign_url THEN <<"s--signature--">> ELSE << >>) \o id

\* one element of the "resources" of a list result
Resource(id, format, rtype) ==
  [public_id |-> id, format |-> format,
   secure_url |-> cloudinary_url(IF id = NoneId THEN <<"?">> ELSE id, rtype, FALSE, "upload")]

\* what the store may hold under uploads/1/ in its raw class; the last two
\* are records without a public id and with a null format
RawStore ==
  { Resource(<<"uploads", "1", "a.pdf">>, "pdf", "raw"),
    Resource(<<"uploads", "1", "b.pdf">>, "PDF", "raw"),
    Resource(<<"uploads", "1", "c.txt">>, "txt", "raw"),
    Resource(NoneId, "pdf", "raw"),
    Resource(<<"uploads", "1", "d.pdf">>, None, "raw") }

\* what the store may hold under uploads/1/ in its image class; the last two
\* are records without a public id and with a null format
ImageStore ==
  { Resource(<<"uploads", "1", "a">>, "png", "image"),
    Resource(<<"uploads", "1", "b">>, "JPG", "image"),
    Resource(<<"uploads", "1", "c">>, "gif", "image"),
    Resource(NoneId, "png", "image"),
    Resource(<<"uploads", "1", "d">>, None, "image") }

Range(l) == { l[k] : k \in 1..Len(l) }

\* the sequences of at most n distinct elements of S
RECURSIVE Listings(_, _)
Listings(S, n) ==
  IF n = 0 THEN { << >> }
  ELSE LET shorter == Listings(S, n - 1)
       IN  shorter \cup
           UNION { { Append(l, x) : x \in S \ Range(l) } :
                     l \in { m \in shorter : Len(m) = n - 1 } }

\* the format test of the raw class
IsPdfFormat(format) == Lower(format) = "pdf"

\* IsImageFormat with one more format in the list
IsImageFormat_gif(format) == Lower(format) \in {"jpg", "jpeg", "png", "gif", "tiff", "bmp", "webp"}

\* the format test of the image class
ImageFormats == {"jpg", "jpeg", "png", "tiff", "bmp", "webp"}
IsImageFormat(format) == Lower(format) \in ImageFormats

\* FilterPdf that forgets the candidates of a listing whose filter raises
FilterPdf_resetOnError(files, kept) ==
  IF \E k \in 1..Len(files) : files[k].format = None
    THEN << >>
    ELSE kept \o SelectSeq(files, LAMBDA file : IsPdfFormat(file.format))

\* the filter loops: file.get("format", "").lower() raises on a null format,
\* which ends the loop and keeps the candidates appended so far
RECURSIVE FilterPdf(_, _)
FilterPdf(files, kept) ==
  IF files = << >> \/ Head(files).format = None THEN kept
  ELSE FilterPdf(Tail(files),
                 IF IsPdfFormat(Head(files).format) THEN Append(kept, Head(files)) ELSE kept)

RECURSIVE FilterImage(_, _)
FilterImage(files, kept) ==
  IF files = << >> \/ Head(files).format = None THEN kept
  ELSE FilterImage(Tail(files),
                   IF IsImageFormat(Head(files).format) THEN Append(kept, Head(files)) ELSE kept)

\* NoCandidates with the second "not" dropped
NoCandidates_droppedNot(pdfs, images) == pdfs = << >> /\ images # << >>

\* if not pdf_files and not image_files
NoCandidates(pdfs, images) == pdfs = << >> /\ images = << >>

(***************************************************************************)
(* The request.                                                            *)
(***************************************************************************)
Init ==
  /\ pc = "authorize"
  /\ user \in Callers
  /\ user_id \in PathUserIds
  /\ env \in [{"CLOUDINARY_CLOUD_NAME", "CLOUDINARY_API_KEY", "CLOUDINARY_API_SECRET"} -> EnvValues]
  /\ OCR_AVAILABLE \in BOOLEAN
  /\ raw_resources = << >>
  /\ image_resources = << >>
  /\ pdf_files = << >>
  /\ image_files = << >>
  /\ i = 0
  /\ public_id = NoneId
  /\ response = << >>
  /\ direct_error = ""
  /\ processed_files = << >>
  /\ failed_files = << >>
  /\ deleted_files = << >>
  /\ total_text = << >>
  /\ total_pages = 0
  /\ calls = << >>
  /\ extract_calls = << >>
  /\ cloud_destroyed = {}
  /\ http = NoResponse

\* return Response({"error": ...}, status=...)
ErrorResponse(status, error) == [status |-> status, error |-> error, body |-> << >>]

batch == << processed_files, failed_files, deleted_files, total_text, total_pages >>
request == << user, user_id, env, OCR_AVAILABLE >>
discovered == << raw_resources, image_resources, pdf_files, image_files >>
current == << i, public_id, response, direct_error >>
world == << calls, extract_calls, cloud_destroyed >>

\* the authorization check
Authorize ==
  /\ pc = "authorize"
  /\ LET status == AuthorizationStatus(user, user_id)
     IN  IF status = 403
           THEN /\ http' = ErrorResponse(403, "Unauthorized access")
                /\ pc' = "done"
         ELSE IF status = 401
           THEN /\ http' = ErrorResponse(401, "User authentication error")
                /\ pc' = "done"
         ELSE /\ http' = http
              /\ pc' = "configure"
  /\ UNCHANGED << request, discovered, current, batch, world >>

\* the configuration check and cloudinary.config
Configure ==
  /\ pc = "configure"
  /\ IF ConfigurationPresent(env)
       THEN /\ pc' = "list_raw"
            /\ http' = http
       ELSE /\ pc' = "done"
            /\ http' = ErrorResponse(500, "Cloudinary configuration missing")
  /\ UNCHANGED << request, discovered, current, batch, world >>

\* api.resources(resource_type="raw") and the PDF filter; the call raises, or
\* it returns a listing
ListRaw ==
  /\ pc = "list_raw"
  /\ \/ /\ calls' = Append(calls, Call("list", "raw", NoneId, << >>, FALSE, << >>, "Rate Limit Exceeded"))
        /\ raw_resources' = << >>
        /\ pdf_files' = << >>
     \/ \E listing \in Listings(RawStore, MaxList) :
          /\ calls' = Append(calls, Call("list", "raw", NoneId, << >>, TRUE, << >>, ""))
          /\ raw_resources' = listing
          /\ pdf_files' = FilterPdf(listing, << >>)
  /\ pc' = "list_image"
  /\ UNCHANGED << request, image_resources, image_files, current, batch,
                  extract_calls, cloud_destroyed, http >>

\* api.resources(resource_type="image") and the image filter, when OCR is
\* available; then the test for no candidates
ListImage ==
  /\ pc = "list_image"
  /\ IF OCR_AVAILABLE
       THEN \/ /\ calls' = Append(calls, Call("list", "image", NoneId, << >>, FALSE, << >>, "Rate Limit Exceeded"))
               /\ image_resources' = << >>
               /\ image_files' = << >>
            \/ \E listing \in Listings(ImageStore, MaxList) :
                 /\ calls' = Append(calls, Call("list", "image", NoneId, << >>, TRUE, << >>, ""))
                 /\ image_resources' = listing
                 /\ image_files' = FilterImage(listing, << >>)
       ELSE UNCHANGED << calls, image_resources, image_files >>
  /\ IF NoCandidates(pdf_files, image_files')
       THEN /\ pc' = "done"
            /\ http' = ErrorResponse(404, "No processable files found for this user")
            /\ i' = i
       ELSE /\ pc' = "pdf_loop"
            /\ http' = http
            /\ i' = 0
  /\ UNCHANGED << request, raw_resources, pdf_files, public_id, response, direct_error,
                  batch, extract_calls, cloud_destroyed >>

(***************************************************************************)
(* The HTTP client.  A GET returns the bytes of a 2xx response, or raises  *)
(* a requests.exceptions.RequestException: an HTTPError from               *)
(* raise_for_status, or a transport error.  str(e) names the URL asked.    *)
(***************************************************************************)
PdfSignature == <<"%", "P", "D", "F">>

\* StartsWith that compares the first byte only
StartsWith_firstByte(bytes, prefix) == Len(bytes) >= 1 /\ bytes[1] = prefix[1]

\* bytes.startswith(prefix)
StartsWith(bytes, prefix) ==
  Len(bytes) >= Len(prefix) /\ SubSeq(bytes, 1, Len(prefix)) = prefix

\* what a GET of a raw object may return
RawContents == { <<"%", "P", "D", "F", "-", "1">>, <<"%", "P", "D">> }

\* what a GET of an image object may return
ImageContents == { <<"P", "N", "G">> }

DirectErrors == {"404 Client Error: direct url", "Connection timed out: direct url"}
SignedErrors == {"401 Client Error: signed url"}

\* SurfacedError that raises the error of the fallback
SurfacedError_signed(direct, signed) == signed

\* the exception that leaves the fallback: raise direct_error
SurfacedError(direct, signed) == direct

\* FailedEntry with the file type of the PDF loop in both loops
FailedEntry_pdfType(id, error, file_type) ==
  [public_id |-> id, error |-> error, file_type |-> "pdf"]

\* failed_files.append({...})
FailedEntry(id, error, file_type) ==
  [public_id |-> id, error |-> error, file_type |-> file_type]

\* the head of the PDF loop: the next candidate, its public id and file name.
\* public_id.split raises on None, outside the try of the file: the except
\* of the whole batch answers 500
PdfNext ==
  /\ pc = "pdf_loop"
  /\ IF i + 1 > Len(pdf_files)
       THEN /\ pc' = IF OCR_AVAILABLE THEN "image_loop" ELSE "respond"
            /\ i' = 0
            /\ UNCHANGED << public_id, http >>
       ELSE /\ public_id' = pdf_files[i + 1].public_id
            /\ i' = i + 1
            /\ IF public_id' = NoneId
                 THEN /\ pc' = "done"
                      /\ http' = ErrorResponse(500, "'NoneType' object has no attribute 'split'")
                 ELSE /\ pc' = "pdf_get"
                      /\ http' = http
  /\ UNCHANGED << request, discovered, response, direct_error, batch, world >>

\* requests.get(pdf_url) and raise_for_status
PdfDirectGet ==
  /\ pc = "pdf_get"
  /\ \/ \E content \in RawContents :
          /\ calls' = Append(calls,
                 Call("GET", "raw", public_id, pdf_files[i].secure_url, TRUE, content, ""))
          /\ response' = content
          /\ direct_error' = direct_error
          /\ pc' = "pdf_verify"
     \/ \E e \in DirectErrors :
          /\ calls' = Append(calls,
                 Call("GET", "raw", public_id, pdf_files[i].secure_url, FALSE, << >>, e))
          /\ direct_error' = e
          /\ response' = response
          /\ pc' = "pdf_signed"
  /\ UNCHANGED << request, discovered, i, public_id, batch, extract_calls,
                  cloud_destroyed, http >>

\* the fallback: cloudinary_url(sign_url=True, type="upload"), one more GET;
\* when it fails too, the direct error is raised to the except of the file
PdfSignedGet ==
  /\ pc = "pdf_signed"
  /\ LET signed_url == cloudinary_url(public_id, "raw", TRUE, "upload")
         sign == Call("sign", "raw", public_id, signed_url, TRUE, << >>, "")
     IN  \/ \E content \in RawContents :
              /\ calls' = calls \o
                     << sign, Call("GET", "raw", public_id, signed_url, TRUE, content, "") >>
              /\ response' = content
              /\ pc' = "pdf_verify"
              /\ failed_files' = failed_files
         \/ \E signed_error \in SignedErrors :
              /\ calls' = calls \o
                     << sign, Call("GET", "raw", public_id, signed_url, FALSE, << >>, signed_error) >>
              /\ failed_files' = Append(failed_files,
                     FailedEntry(public_id, SurfacedError(direct_error, signed_error), "pdf"))
              /\ response' = response
              /\ pc' = "pdf_loop"
  /\ direct_error' = ""
  /\ UNCHANGED << request, discovered, i, public_id, processed_files,
                  deleted_files, total_text, total_pages, extract_calls,
                  cloud_destroyed, http >>

(***************************************************************************)
(* Disposition.                                                            *)
(***************************************************************************)
\* what cloudinary.uploader.destroy may do: answer after removing the object
\* or without removing it, or raise before or after the store removed it
DestroyOutcomes ==
  { [raised |-> FALSE, result |-> "ok", removed |-> TRUE],
    [raised |-> FALSE, result |-> "not found", removed |-> FALSE],
    [raised |-> TRUE, result |-> "", removed |-> FALSE],
    [raised |-> TRUE, result |-> "", removed |-> TRUE] }

\* delete_from_cloudinary that takes any answer of the store for a deletion
delete_from_cloudinary_anyAnswer(destroy) == ~destroy.raised

\* delete_from_cloudinary whose except clause returns True
delete_from_cloudinary_onRaise(destroy) == destroy.raised \/ destroy.result = "ok"

\* the value of delete_from_cloudinary, given what destroy did
delete_from_cloudinary(destroy) == ~destroy.raised /\ destroy.result = "ok"

\* PdfAfterRecord with the delete after the if/else instead of inside it
PdfAfterRecord_always(usable) == "pdf_delete"

\* where the PDF loop goes once an outcome is recorded: to the delete from
\* the success branch only
PdfAfterRecord(usable) == IF usable THEN "pdf_delete" ELSE "pdf_loop"

\* where the image loop goes once an outcome is recorded
ImageAfterRecord(usable) == IF usable THEN "image_delete" ELSE "image_loop"

\* whether the outcome of a PDF goes to processed_files
PdfUsable(er) == er.success

\* ImageUsable without the test of the character count
ImageUsable_successOnly(er) == er.success

\* whether the outcome of an image goes to processed_files
ImageUsable(er) == er.success /\ er.character_count > 0

\* extraction_result.get('error', default)
ErrorOf(er, default) == IF er.error = None THEN default ELSE er.error

\* processed_files.append({...}) of a PDF
PdfProcessedEntry(id, er) ==
  [filename |-> Last(id), public_id |-> id, file_type |-> "pdf", resource_type |-> "raw",
   pages |-> er.page_count, image_dimensions |-> "unknown",
   characters |-> er.character_count, words |-> er.word_count,
   text_preview |-> Preview(er.text), extraction_method |-> "PDF parsing (PyMuPDF)"]

\* processed_files.append({...}) of an image
ImageProcessedEntry(id, er) ==
  [filename |-> Last(id), public_id |-> id, file_type |-> "image", resource_type |-> "image",
   pages |-> 0, image_dimensions |-> er.image_dimensions,
   characters |-> er.character_count, words |-> er.word_count,
   text_preview |-> Preview(er.text), extraction_method |-> "OCR (Tesseract)"]

\* total_text += f"\n\n=== PDF FILE: {public_id} ===\n{text}": one segment
Segment(kind, id, text) == [header |-> kind, public_id |-> id, text |-> text]

\* the signature check, the extraction and the record of its outcome
PdfExtract ==
  /\ pc = "pdf_verify"
  /\ IF ~StartsWith(response, PdfSignature)
       THEN /\ failed_files' = Append(failed_files,
                   FailedEntry(public_id, "Downloaded content is not a valid PDF file", "pdf"))
            /\ pc' = "pdf_loop"
            /\ UNCHANGED << processed_files, total_text, total_pages, extract_calls >>
       ELSE \E fitz \in FitzOutcomes :
              LET extraction_result == extract_text_from_pdf_bytes(response, fitz)
              IN  /\ extract_calls' = Append(extract_calls,
                         Extraction("raw", public_id, extraction_result))
                  /\ pc' = PdfAfterRecord(PdfUsable(extraction_result))
                  /\ IF PdfUsable(extraction_result)
                       THEN /\ processed_files' = Append(processed_files,
                                   PdfProcessedEntry(public_id, extraction_result))
                            /\ total_text' = Append(total_text,
                                   Segment("PDF FILE", public_id, extraction_result.text))
                            /\ total_pages' = total_pages + extraction_result.page_count
                            /\ failed_files' = failed_files
                       ELSE /\ failed_files' = Append(failed_files,
                                   FailedEntry(public_id, ErrorOf(extraction_result, None), "pdf"))
                            /\ UNCHANGED << processed_files, total_text, total_pages >>
  /\ UNCHANGED << request, discovered, i, public_id, response, direct_error, deleted_files,
                  calls, cloud_destroyed, http >>

\* if delete_from_cloudinary(public_id, "raw"): deleted_files.append(public_id)
PdfDelete ==
  /\ pc = "pdf_delete"
  /\ \E destroy \in DestroyOutcomes :
       /\ calls' = Append(calls,
              Call("destroy", "raw", public_id, << >>, ~destroy.raised, << >>, destroy.result))
       /\ cloud_destroyed' = IF destroy.removed
                               THEN cloud_destroyed \cup { <<"raw", public_id>> }
                               ELSE cloud_destroyed
       /\ deleted_files' = IF delete_from_cloudinary(destroy)
                             THEN Append(deleted_files, public_id)
                             ELSE deleted_files
  /\ pc' = "pdf_loop"
  /\ UNCHANGED << request, discovered, i, public_id, response, direct_error, processed_files,
                  failed_files, total_text, total_pages, extract_calls, http >>

\* the head of the image loop, as PdfNext
ImageNext ==
  /\ pc = "image_loop"
  /\ IF i + 1 > Len(image_files)
       THEN /\ pc' = "respond"
            /\ UNCHANGED << i, public_id, http >>
       ELSE /\ public_id' = image_files[i + 1].public_id
            /\ i' = i + 1
            /\ IF public_id' = NoneId
                 THEN /\ pc' = "done"
                      /\ http' = ErrorResponse(500, "'NoneType' object has no attribute 'split'")
                 ELSE /\ pc' = "image_get"
                      /\ http' = http
  /\ UNCHANGED << request, discovered, response, direct_error, batch, world >>

\* requests.get(image_url) and raise_for_status: a failure goes to the except
\* of the file
ImageGet ==
  /\ pc = "image_get"
  /\ \/ \E content \in ImageContents :
          /\ calls' = Append(calls,
                 Call("GET", "image", public_id, image_files[i].secure_url, TRUE, content, ""))
          /\ response' = content
          /\ pc' = "image_extract"
          /\ failed_files' = failed_files
     \/ \E e \in DirectErrors :
          /\ calls' = Append(calls,
                 Call("GET", "image", public_id, image_files[i].secure_url, FALSE, << >>, e))
          /\ failed_files' = Append(failed_files, FailedEntry(public_id, e, "image"))
          /\ response' = response
          /\ pc' = "image_loop"
  /\ UNCHANGED << request, discovered, i, public_id, direct_error, processed_files,
                  deleted_files, total_text, total_pages, extract_calls,
                  cloud_destroyed, http >>

\* the OCR extraction and the record of its outcome
ImageExtract ==
  /\ pc = "image_extract"
  /\ \E ocr \in OcrOutcomes :
       LET extraction_result ==
             extract_text_from_image_bytes(response, Last(public_id), OCR_AVAILABLE, ocr)
       IN  /\ extract_calls' = Append(extract_calls,
                  Extraction("image", public_id, extraction_result))
           /\ pc' = ImageAfterRecord(ImageUsable(extraction_result))
           /\ IF ImageUsable(extraction_result)
                THEN /\ processed_files' = Append(processed_files,
                            ImageProcessedEntry(public_id, extraction_result))
                     /\ total_text' = Append(total_text,
                            Segment("IMAGE FILE", public_id, extraction_result.text))
                     /\ failed_files' = failed_files
                ELSE /\ failed_files' = Append(failed_files,
                            FailedEntry(public_id, ErrorOf(extraction_result, "No text detected"),
                                        "image"))
                     /\ UNCHANGED << processed_files, total_text >>
  /\ UNCHANGED << request, discovered, i, public_id, response, direct_error, deleted_files,
                  total_pages, calls, cloud_destroyed, http >>

\* if delete_from_cloudinary(public_id, "image"): deleted_files.append(public_id)
ImageDelete ==
  /\ pc = "image_delete"
  /\ \E destroy \in DestroyOutcomes :
       /\ calls' = Append(calls,
              Call("destroy", "image", public_id, << >>, ~destroy.raised, << >>, destroy.result))
       /\ cloud_destroyed' = IF destroy.removed
                               THEN cloud_destroyed \cup { <<"image", public_id>> }
                               ELSE cloud_destroyed
       /\ deleted_files' = IF delete_from_cloudinary(destroy)
                             THEN Append(deleted_files, public_id)
                             ELSE deleted_files
  /\ pc' = "image_loop"
  /\ UNCHANGED << request, discovered, i, public_id, response, direct_error, processed_files,
                  failed_files, total_text, total_pages, extract_calls, http >>

\* return Response({"status": "success", ...})
Respond ==
  /\ pc = "respond"
  /\ http' = [status |-> 200, error |-> "",
              body |-> << [total_pdfs_found |-> Len(pdf_files),
                           total_images_found |-> IF OCR_AVAILABLE THEN Len(image_files) ELSE 0,
                           files_processed |-> Len(processed_files),
                           files_failed |-> Len(failed_files),
                           files_deleted_from_cloudinary |-> Len(deleted_files),
                           total_pages_processed |-> total_pages,
                           processed_files |-> processed_files,
                           failed_files |-> failed_files,
                           extracted_text |-> total_text] >>]
  /\ pc' = "done"
  /\ UNCHANGED << request, discovered, current, batch, world >>

Next ==
  \/ Authorize
  \/ Configure
  \/ ListRaw
  \/ ListImage
  \/ PdfNext
  \/ PdfDirectGet
  \/ PdfSignedGet
  \/ PdfExtract
  \/ PdfDelete
  \/ ImageNext
  \/ ImageGet
  \/ ImageExtract
  \/ ImageDelete
  \/ Respond

Spec == Init /\ [][Next]_vars

(***************************************************************************)
(* Vocabulary of the properties.                                           *)
(***************************************************************************)
Indices(seq) == 1..Len(seq)

\* the storage class a file_type of the report stands for
ClassOf(file_type) == IF file_type = "pdf" THEN "raw" ELSE "image"

\* the candidates of the batch, as (storage class, public id)
Candidates ==
  { <<"raw", pdf_files[k].public_id>> : k \in Indices(pdf_files) } \cup
  { <<"image", image_files[k].public_id>> : k \in Indices(image_files) }

\* the positions of a file in a sequence of report entries
EntriesOf(entries, f) ==
  { k \in Indices(entries) :
      ClassOf(entries[k].file_type) = f[1] /\ entries[k].public_id = f[2] }

\* the calls of one kind made for a file
CallsOf(op, f) ==
  { k \in Indices(calls) :
      calls[k].op = op /\ calls[k].resource_type = f[1] /\ calls[k].public_id = f[2] }

\* the extractions run on a file
ExtractionsOf(f) ==
  { k \in Indices(extract_calls) :
      extract_calls[k].resource_type = f[1] /\ extract_calls[k].public_id = f[2] }

\* the request has answered with the batch report
Reported == pc = "done" /\ http.status = 200

\* the checks have passed and Discovery has found a candidate
BatchStarted ==
  /\ pc \notin {"authorize", "configure", "list_raw", "list_image"}
  /\ Candidates # {}

C2_DeletedOnlyIfProcessed ==
  /\ \A k \in Indices(deleted_files) :
       \E p \in Indices(processed_files) : processed_files[p].public_id = deleted_files[k]
  /\ \A k \in Indices(calls) :
       calls[k].op = "destroy" =>
         LET f == <<calls[k].resource_type, calls[k].public_id>>
         IN  EntriesOf(processed_files, f) # {} /\ EntriesOf(failed_files, f) = {}

\* a batch with a deleted file and a failed file
C2_Witness ==
  /\ deleted_files # << >>
  /\ failed_files # << >>
  /\ \E k \in Indices(calls) : calls[k].op = "destroy" /\ ~calls[k].ok

\* the usability rule of the disposition, read off the extraction results:
\* a successful result, and for an image one of at least one character
UsableRule(f) ==
  \E k \in ExtractionsOf(f) :
    /\ extract_calls[k].result.success
    /\ f[1] = "image" => extract_calls[k].result.character_count > 0

\* between two files, or after the last
BetweenFiles == pc \in {"pdf_loop", "image_loop", "respond", "done"}

(***************************************************************************)
(* C3, as claimed: when the report is returned, a candidate has been       *)
(* removed from the store if and only if the usability rule held for it.   *)
(***************************************************************************)
C3_DeletedIffUsable ==
  Reported => \A f \in Candidates : f \in cloud_destroyed <=> UsableRule(f)

(***************************************************************************)
(* C3, amended: between two files, a delete request has been sent for a    *)
(* candidate if and only if the usability rule held for it (for a PDF any  *)
(* successful parse, whatever its length); the store has removed a file,   *)
(* and deleted_files names it, only if the rule held; and deleted_files    *)
(* names it exactly when the store answered the request with "ok".         *)
(***************************************************************************)
C3_DeleteRequestedIffUsable ==
  /\ BetweenFiles =>
       \A f \in Candidates : CallsOf("destroy", f) # {} <=> UsableRule(f)
  /\ \A f \in cloud_destroyed : UsableRule(f)
  /\ BetweenFiles =>
       \A f \in Candidates :
         (\E k \in Indices(deleted_files) : deleted_files[k] = f[2])
           <=> (\E k \in CallsOf("destroy", f) : calls[k].ok /\ calls[k].error = "ok")

\* a report with a PDF of no character removed, an image of no character
\* kept, and a usable file the store did not remove
C3_Witness ==
  /\ Reported
  /\ \E k \in Indices(extract_calls) :
       /\ extract_calls[k].resource_type = "raw"
       /\ extract_calls[k].result.success
       /\ extract_calls[k].result.character_count = 0
       /\ <<"raw", extract_calls[k].public_id>> \in cloud_destroyed
  /\ \E k \in Indices(extract_calls) :
       /\ extract_calls[k].resource_type = "image"
       /\ extract_calls[k].result.success
       /\ extract_calls[k].result.character_count = 0
  /\ \E f \in Candidates : UsableRule(f) /\ f \notin cloud_destroyed

(***************************************************************************)
(* C4, as claimed: a request that passed the checks and found candidates   *)
(* ends with the 200 report, in which every candidate is accounted for; it *)
(* never ends with a 500.                                                  *)
(***************************************************************************)
C4_NoFileAbortsBatch ==
  (pc = "done" /\ BatchStarted) =>
    /\ http.status = 200
    /\ \A f \in Candidates :
         EntriesOf(processed_files, f) # {} \/ EntriesOf(failed_files, f) # {}

(***************************************************************************)
(* C5: a caller whose identity differs from the path user id gets 403, a   *)
(* caller without identity gets 401, both whatever the configuration; an   *)
(* authorized caller with a missing store credential gets 500; and in the  *)
(* three cases the request has made no call to the store.                  *)
(***************************************************************************)
CredentialMissing == \E k \in DOMAIN env : env[k] \in {None, ""}

C5_ChecksBeforeStore ==
  /\ (pc = "done" /\ user # NoUser /\ user # user_id) => http.status = 403
  /\ (pc = "done" /\ user = NoUser) => http.status = 401
  /\ (pc = "done" /\ user = user_id /\ CredentialMissing) => http.status = 500
  /\ (user # user_id \/ CredentialMissing) =>
       calls = << >> /\ extract_calls = << >> /\ cloud_destroyed = {}

\* a 403 for a request that also lacks a credential: authorization is first
C5_Witness ==
  pc = "done" /\ http.status = 403 /\ CredentialMissing /\ calls = << >>

(***************************************************************************)
(* C6: when Discovery ends with no PDF candidate and no image candidate,   *)
(* the request ends with 404, and all it has asked of the store is the     *)
(* listings: no GET, no signed URL, no extraction, no delete.              *)
(***************************************************************************)
DiscoveryDone ==
  pc \notin {"authorize", "configure", "list_raw", "list_image"} /\ calls # << >>

C6_NoCandidates404 ==
  (DiscoveryDone /\ pdf_files = << >> /\ image_files = << >>) =>
    /\ pc = "done"
    /\ http.status = 404
    /\ \A k \in Indices(calls) : calls[k].op = "list"
    /\ extract_calls = << >>
    /\ cloud_destroyed = {}

\* a 404 although the store listed files: none passed the filters
C6_Witness ==
  /\ http.status = 404
  /\ raw_resources # << >>
  /\ image_resources # << >>

(***************************************************************************)
(* C7: a PDF candidate whose downloaded bytes do not start with the four   *)
(* bytes %PDF is never given to extract_text_from_pdf_bytes, no delete     *)
(* request is sent for it, it is not in processed_files, and once the      *)
(* check has run it is in failed_files with the "not a valid PDF" error.   *)
(***************************************************************************)
HasPdfSignature(bytes) ==
  Len(bytes) >= 4 /\ bytes[1] = "%" /\ bytes[2] = "P" /\ bytes[3] = "D" /\ bytes[4] = "F"

C7_InvalidPdfNotExtracted ==
  \A k \in Indices(calls) :
    (calls[k].op = "GET" /\ calls[k].resource_type = "raw" /\ calls[k].ok
       /\ ~HasPdfSignature(calls[k].content)) =>
      LET f == <<"raw", calls[k].public_id>>
      IN  /\ ExtractionsOf(f) = {}
          /\ CallsOf("destroy", f) = {}
          /\ EntriesOf(processed_files, f) = {}
          /\ ~(pc = "pdf_verify" /\ public_id = f[2]) =>
               \E e \in EntriesOf(failed_files, f) :
                 failed_files[e].error = "Downloaded content is not a valid PDF file"

\* a report with a PDF refused for its signature, downloaded by the fallback
C7_Witness ==
  /\ Reported
  /\ \E k \in Indices(calls) :
       /\ calls[k].op = "GET" /\ calls[k].ok /\ calls[k].content = <<"%", "P", "D">>
       /\ \E j \in CallsOf("sign", <<"raw", calls[k].public_id>>) : j < k
  /\ \E e \in Indices(failed_files) :
       failed_files[e].error = "Downloaded content is not a valid PDF file"

(***************************************************************************)
(* C8: an image candidate whose decode succeeded and whose recognized text *)
(* has no character after trimming is in failed_files with the error "No   *)
(* text detected", is not in processed_files, has no segment in the        *)
(* cumulative text, and no delete request is sent for it.                  *)
(***************************************************************************)
C8_BlankImageFails ==
  \A k \in Indices(extract_calls) :
    (extract_calls[k].resource_type = "image" /\ extract_calls[k].result.success
       /\ extract_calls[k].result.character_count = 0) =>
      LET f == <<"image", extract_calls[k].public_id>>
      IN  /\ \E e \in EntriesOf(failed_files, f) : failed_files[e].error = "No text detected"
          /\ EntriesOf(processed_files, f) = {}
          /\ \A t \in Indices(total_text) :
               ~(total_text[t].header = "IMAGE FILE" /\ total_text[t].public_id = f[2])
          /\ CallsOf("destroy", f) = {}
          /\ f \notin cloud_destroyed

\* a report after an image whose recognition gave only white space
C8_Witness ==
  /\ Reported
  /\ \E k \in Indices(extract_calls) :
       /\ extract_calls[k].resource_type = "image"
       /\ extract_calls[k].result.success
       /\ extract_calls[k].result.character_count = 0
  /\ processed_files # << >>

(***************************************************************************)
(* Acquisition, read off the calls.                                        *)
(***************************************************************************)
\* the direct secure URL and the signed "upload" URL of a file
DirectUrl(f) == <<"https://res.cloudinary.com/demo", f[1], "upload">> \o f[2]
SignedUrl(f) == <<"https://res.cloudinary.com/demo", f[1], "upload", "s--signature--">> \o f[2]

\* the k-th smallest element of a set of indices
First(S) == CHOOSE k \in S : \A j \in S : k <= j
Second(S) == First(S \ {First(S)})

\* the fallback of f is still to run
FallbackPending(f) == pc = "pdf_signed" /\ f = <<"raw", public_id>>

\* the fallback discipline of one file: at most two GETs, the first on the
\* direct URL; after a failed first GET exactly one more, on the signed
\* "upload" URL of the same id and class; an acquisition failure is
\* recorded only after that one has failed too
FallbackOnce(f) ==
  LET gets == CallsOf("GET", f)
  IN  /\ Cardinality(gets) <= 2
      /\ gets # {} => calls[First(gets)].url = DirectUrl(f)
      /\ (gets # {} /\ calls[First(gets)].ok) =>
           Cardinality(gets) = 1 /\ CallsOf("sign", f) = {}
      /\ (gets # {} /\ ~calls[First(gets)].ok /\ ~FallbackPending(f)) =>
           /\ Cardinality(gets) = 2
           /\ calls[Second(gets)].url = SignedUrl(f)
           /\ CallsOf("sign", f) = {Second(gets) - 1}
           /\ calls[Second(gets) - 1].url = SignedUrl(f)
      /\ \A e \in EntriesOf(failed_files, f) :
           failed_files[e].error \in DirectErrors =>
             Cardinality(gets) = 2 /\ ~calls[Second(gets)].ok

\* no fallback: one GET at most, on the direct URL, and its failure is
\* recorded at once
NoFallback(f) ==
  LET gets == CallsOf("GET", f)
  IN  /\ Cardinality(gets) <= 1
      /\ CallsOf("sign", f) = {}
      /\ \A k \in gets :
           /\ calls[k].url = DirectUrl(f)
           /\ ~calls[k].ok =>
                \E e \in EntriesOf(failed_files, f) : failed_files[e].error = calls[k].error

(***************************************************************************)
(* C9, as claimed: every candidate, PDF or image, is acquired with the     *)
(* fallback: a failed direct GET is followed by exactly one GET on the     *)
(* signed URL, and the file fails only after that one has failed.          *)
(***************************************************************************)
C9_FallbackForEveryFile == \A f \in Candidates : FallbackOnce(f)

(***************************************************************************)
(* C9, amended: every PDF candidate is acquired with the fallback, exactly *)
(* one signed-URL GET after a failed direct GET and never a third; an      *)
(* image candidate is acquired with one direct GET only, and a failure of  *)
(* that GET records the image in failed_files without any retry.           *)
(***************************************************************************)
C9_FallbackForPdfOnly ==
  \A f \in Candidates : IF f[1] = "raw" THEN FallbackOnce(f) ELSE NoFallback(f)

\* a report after a PDF saved by the fallback, a PDF lost after the
\* fallback, and an image lost after its only GET
C9_Witness ==
  /\ Reported
  /\ \E f \in Candidates :
       /\ f[1] = "raw"
       /\ Cardinality(CallsOf("GET", f)) = 2
       /\ calls[Second(CallsOf("GET", f))].ok
  /\ \E f \in Candidates :
       /\ f[1] = "raw"
       /\ Cardinality(CallsOf("GET", f)) = 2
       /\ ~calls[Second(CallsOf("GET", f))].ok
  /\ \E f \in Candidates :
       /\ f[1] = "image"
       /\ \E k \in CallsOf("GET", f) : ~calls[k].ok

(***************************************************************************)
(* C10: when the direct GET and the signed-URL GET of a file both fail,    *)
(* the file has one entry in failed_files, whose error is the error of the *)
(* direct GET; it is never extracted, never in processed_files, and no     *)
(* delete request is sent for it.                                          *)
(***************************************************************************)
C10_DirectErrorSurfaced ==
  \A f \in Candidates :
    \A d \in CallsOf("GET", f) :
      \A g \in CallsOf("GET", f) :
        (d < g /\ ~calls[d].ok /\ ~calls[g].ok) =>
          /\ Cardinality(EntriesOf(failed_files, f)) = 1
          /\ \A e \in EntriesOf(failed_files, f) : failed_files[e].error = calls[d].error
          /\ ExtractionsOf(f) = {}
          /\ EntriesOf(processed_files, f) = {}
          /\ CallsOf("destroy", f) = {}

\* a report after a file whose two GETs failed with different errors
C10_Witness ==
  /\ Reported
  /\ \E f \in Candidates :
       \E d \in CallsOf("GET", f) :
         \E g \in CallsOf("GET", f) :
           d < g /\ ~calls[d].ok /\ ~calls[g].ok /\ calls[d].error # calls[g].error

(***************************************************************************)
(* Discovery, read off the listings.                                       *)
(***************************************************************************)
\* the list call of a class, if it has been made
ListCallsOf(rtype) ==
  { k \in Indices(calls) : calls[k].op = "list" /\ calls[k].resource_type = rtype }

\* the query of a class raised
QueryFailed(rtype) == \E k \in ListCallsOf(rtype) : ~calls[k].ok

\* the filter of a listing raised: a record of it has a null format
FilterFailed(resources) == \E k \in Indices(resources) : resources[k].format = None

\* the records of a listing before the first one with a null format
BeforeFailure(resources) ==
  LET nulls == { k \in Indices(resources) : resources[k].format = None }
  IN  IF nulls = {} THEN resources ELSE SubSeq(resources, 1, First(nulls) - 1)

\* the formats the two filters accept, as the store spells them in the model
PdfSpellings == {"pdf", "PDF"}
ImageSpellings == {"png", "JPG"}

\* the query of the raw class is over
RawListed == pc \notin {"authorize", "configure", "list_raw"} /\ calls # << >>

\* the request ended with the 500 of the except of the whole batch
BatchAborted == pc = "done" /\ http.status = 500 /\ calls # << >>

(***************************************************************************)
(* C11, as claimed: a class whose query raised, or whose filter raised,    *)
(* has no candidate; the query of the other class (of the image class when *)
(* OCR is available) has run all the same; and the request does not end    *)
(* with a 500 because of that failure.                                     *)
(***************************************************************************)
C11_FailedClassIsEmpty ==
  /\ (RawListed /\ (QueryFailed("raw") \/ FilterFailed(raw_resources))) =>
       pdf_files = << >>
  /\ (DiscoveryDone /\ (QueryFailed("image") \/ FilterFailed(image_resources))) =>
       image_files = << >>
  /\ (DiscoveryDone /\ OCR_AVAILABLE
        /\ (QueryFailed("raw") \/ FilterFailed(raw_resources))) =>
       ListCallsOf("image") # {}
  /\ BatchAborted => \E f \in Candidates : f[2] = NoneId

(***************************************************************************)
(* C11, amended: a class whose query raised has no candidate; a class      *)
(* whose filter raised on a record keeps as candidates the records it      *)
(* accepted before that record, and no later one.  Neither failure aborts  *)
(* anything: the raw query is always made, the image query is made after   *)
(* it exactly when OCR is available, whatever the raw query did; the       *)
(* request then goes on with the candidates found, or ends with 404 when   *)
(* there is none; a 500 comes only from a candidate without an id.         *)
(***************************************************************************)
C11_QueryFailureIsLocal ==
  /\ (RawListed /\ QueryFailed("raw")) => pdf_files = << >>
  /\ (DiscoveryDone /\ QueryFailed("image")) => image_files = << >>
  /\ RawListed =>
       pdf_files = SelectSeq(BeforeFailure(raw_resources),
                             LAMBDA file : file.format \in PdfSpellings)
  /\ DiscoveryDone =>
       image_files = SelectSeq(BeforeFailure(image_resources),
                               LAMBDA file : file.format \in ImageSpellings)
  /\ RawListed => Cardinality(ListCallsOf("raw")) = 1
  /\ DiscoveryDone =>
       /\ Cardinality(ListCallsOf("image")) = IF OCR_AVAILABLE THEN 1 ELSE 0
       /\ \A r \in ListCallsOf("raw") : \A m \in ListCallsOf("image") : r < m
       /\ Candidates = {} <=> http.status = 404
       /\ Candidates # {} => pc # "done" \/ http.status \in {200, 500}
  /\ BatchAborted => \E f \in Candidates : f[2] = NoneId

\* a report after a raw filter that raised behind a PDF it had accepted,
\* and an image query that raised
C11_Witness ==
  /\ Reported
  /\ FilterFailed(raw_resources)
  /\ pdf_files # << >>
  /\ QueryFailed("image")

(***************************************************************************)
(* C12: when the delete request of a file fails (destroy raises, or        *)
(* answers something other than "ok"), the file has its one entry in       *)
(* processed_files and none in failed_files, its text is in the cumulative *)
(* text, its id is not in deleted_files, and the batch goes on: no         *)
(* response is made by the failure, the report has an entry for every      *)
(* candidate, and a request that ends with no further call ends with the   *)
(* report, or with the 500 of a next candidate that has no id.             *)
(***************************************************************************)
DeleteFailed(k) == calls[k].op = "destroy" /\ (~calls[k].ok \/ calls[k].error # "ok")

C12_DeleteFailureKeepsOutcome ==
  \A k \in Indices(calls) :
    DeleteFailed(k) =>
      LET f == <<calls[k].resource_type, calls[k].public_id>>
      IN  /\ Cardinality(EntriesOf(processed_files, f)) = 1
          /\ EntriesOf(failed_files, f) = {}
          /\ \E t \in Indices(total_text) :
               /\ total_text[t].public_id = f[2]
               /\ \E x \in ExtractionsOf(f) : total_text[t].text = extract_calls[x].result.text
          /\ \A d \in Indices(deleted_files) : deleted_files[d] # f[2]
          /\ Reported =>
               \A c \in Candidates :
                 EntriesOf(processed_files, c) \cup EntriesOf(failed_files, c) # {}
          /\ k = Len(calls) =>
               /\ pc # "done" => http = NoResponse
               /\ pc = "done" =>
                    \/ http.status = 200
                    \/ http.status = 500 /\ \E c \in Candidates : c[2] = NoneId

\* a report where a delete raised, another was refused, and a file was
\* deleted after them
C12_Witness ==
  /\ Reported
  /\ \E k \in Indices(calls) :
       /\ calls[k].op = "destroy" /\ ~calls[k].ok
       /\ \E j \in Indices(calls) :
            /\ k < j
            /\ calls[j].op = "destroy" /\ calls[j].ok /\ calls[j].error = "not found"
            /\ \E m \in Indices(calls) :
                 j < m /\ calls[m].op = "destroy" /\ calls[m].error = "ok"

(***************************************************************************)
(* C13: every PDF candidate is a file of the raw listing whose format is   *)
(* "pdf" in lower case, and every such file of a listing whose filter did  *)
(* not raise is a candidate; every image candidate is a file of the image  *)
(* listing whose format in lower case is one of jpg, jpeg, png, tiff, bmp, *)
(* webp; without OCR there is no image candidate and no image query; and   *)
(* every GET, signed URL, extraction and delete is for such a file.        *)
(***************************************************************************)
AllowedImageFormats == {"jpg", "jpeg", "png", "tiff", "bmp", "webp"}

\* the format in lower case, of the spellings the store of the model uses
LowerCase(format) ==
  IF format = "PDF" THEN "pdf" ELSE IF format = "JPG" THEN "jpg" ELSE format

\* f is a file of the listing of its class with an accepted format
Accepted(f) ==
  IF f[1] = "raw"
    THEN \E k \in Indices(raw_resources) :
           raw_resources[k].public_id = f[2] /\ LowerCase(raw_resources[k].format) = "pdf"
    ELSE \E k \in Indices(image_resources) :
           /\ image_resources[k].public_id = f[2]
           /\ LowerCase(image_resources[k].format) \in AllowedImageFormats

C13_OnlyAcceptedFormats ==
  /\ \A f \in Candidates : Accepted(f)
  /\ (RawListed /\ ~FilterFailed(raw_resources)) =>
       \A k \in Indices(raw_resources) :
         LowerCase(raw_resources[k].format) = "pdf" =>
           <<"raw", raw_resources[k].public_id>> \in Candidates
  /\ ~OCR_AVAILABLE => image_files = << >> /\ ListCallsOf("image") = {}
  /\ \A k \in Indices(calls) :
       calls[k].op # "list" => Accepted(<<calls[k].resource_type, calls[k].public_id>>)
  /\ \A k \in Indices(extract_calls) :
       Accepted(<<extract_calls[k].resource_type, extract_calls[k].public_id>>)
  /\ \A f \in cloud_destroyed : Accepted(f)

\* a report of a batch whose listings held a .txt and a .gif beside a PDF
\* and a JPG in upper case, both processed
C13_Witness ==
  /\ Reported
  /\ \E k \in Indices(raw_resources) : raw_resources[k].format = "txt"
  /\ \E k \in Indices(image_resources) : image_resources[k].format = "gif"
  /\ \E k \in Indices(pdf_files) : pdf_files[k].format = "PDF"
  /\ \E k \in Indices(image_files) : image_files[k].format = "JPG"
  /\ Len(processed_files) = 2

(***************************************************************************)
(* C14, as claimed: a delete request is sent for a file only once its      *)
(* entry is in processed_files and its header and text are in the          *)
(* cumulative text, and at most once; and whenever a request that deleted  *)
(* a file has ended, its response holds, in extracted_text, the header and *)
(* the whole extracted text of that file.                                  *)
(***************************************************************************)
\* the segment of f, with its header and its whole extracted text, is in text
TextHolds(text, f) ==
  \E t \in Indices(text) :
    /\ text[t].header = (IF f[1] = "raw" THEN "PDF FILE" ELSE "IMAGE FILE")
    /\ text[t].public_id = f[2]
    /\ \E x \in ExtractionsOf(f) : text[t].text = extract_calls[x].result.text

\* the extracted_text of the response, if it has one
ExtractedText == IF http.body = << >> THEN << >> ELSE http.body[1].extracted_text

C14_DeletedTextIsReturned ==
  /\ \A f \in Candidates :
       /\ Cardinality(CallsOf("destroy", f)) <= 1
       /\ CallsOf("destroy", f) # {} =>
            EntriesOf(processed_files, f) # {} /\ TextHolds(total_text, f)
  /\ pc \in {"pdf_delete", "image_delete"} =>
       LET f == <<IF pc = "pdf_delete" THEN "raw" ELSE "image", public_id>>
       IN  /\ CallsOf("destroy", f) = {}
           /\ EntriesOf(processed_files, f) # {}
           /\ TextHolds(total_text, f)
  /\ pc = "done" => \A f \in cloud_destroyed : TextHolds(ExtractedText, f)

====
